---- MODULE Spec2Model ----
(***************************************************************************)
(* Model of amazon_rss.go: the mapping of a generic Feed / Item to the     *)
(* Amazon RSS dialect (newAmazonRssItem, AmazonRss.AmazonRssFeed) and the  *)
(* <rss> envelope (AmazonRss.FeedXml, AmazonRssFeed.FeedXml).              *)
(*                                                                         *)
(* Go values are modelled as follows.                                      *)
(*   - a string is a TLA+ string, "" is the zero value;                    *)
(*   - a pointer to a struct outside the channel heap is a sequence of     *)
(*     length 0 (nil) or 1 (the pointee);                                  *)
(*   - a *AmazonRssFeed is an address into `heap`, so that the envelope    *)
(*     can hold the channel by reference;                                  *)
(*   - a time.Time is [day, sec, nsec, off]: the UTC instant as days since *)
(*     0001-01-01 and seconds within that day, the nanoseconds, and the    *)
(*     zone offset in seconds east of UTC;                                 *)
(*   - a call returns [panic, ret]: a nil dereference is a panic.          *)
(* The XMLName fields are never assigned and are left out.                 *)
(***************************************************************************)
EXTENDS Integers, Sequences, FiniteSets, TLC

VARIABLES
    feed,      \* the *Feed embedded in the AmazonRss receiver
    item,      \* the *Item argument of a direct newAmazonRssItem call
    rssItem,   \* the *AmazonRssItem returned by newAmazonRssItem
    heap,      \* the allocated AmazonRssFeed objects, by address
    chan,      \* the *AmazonRssFeed returned by AmazonRssFeed (0: none)
    xml,       \* the *AmazonRssFeedXml returned by FeedXml
    pc         \* "item", "feed": before the call; "chan", "done", "panic"

vars == <<feed, item, rssItem, heap, chan, xml, pc>>

\* Bound on the number of items of an input feed.
MaxItems == 2

Nil == <<>>
Ptr(v) == <<v>>
Deref(p) == p[1]

Ok(v) == [panic |-> FALSE, ret |-> Ptr(v)]
Panic == [panic |-> TRUE, ret |-> Nil]

(***************************************************************************)
(* time.Time and Format(time.RFC1123Z)                                     *)
(***************************************************************************)
Time(d, s, n, o) == [day |-> d, sec |-> s, nsec |-> n, off |-> o]

ZeroTime == Time(0, 0, 0, 0)

IsZero(t) == t.day = 0 /\ t.sec = 0 /\ t.nsec = 0

Digit == <<"0", "1", "2", "3", "4", "5", "6", "7", "8", "9">>

Pad2(n) == Digit[((n \div 10) % 10) + 1] \o Digit[(n % 10) + 1]

Pad4(n) == Pad2(n \div 100) \o Pad2(n % 100)

DayName == <<"Sun", "Mon", "Tue", "Wed", "Thu", "Fri", "Sat">>

MonthName == <<"Jan", "Feb", "Mar", "Apr", "May", "Jun",
               "Jul", "Aug", "Sep", "Oct", "Nov", "Dec">>

\* Days before the first of each month, and the year's length, in a
\* non-leap and in a leap year.
DaysBefore == <<0, 31, 59, 90, 120, 151, 181, 212, 243, 273, 304, 334, 365>>

LeapDaysBefore == <<0, 31, 60, 91, 121, 152, 182, 213, 244, 274, 305, 335, 366>>

Min(a, b) == IF a < b THEN a ELSE b

IsLeap(year) == year % 4 = 0 /\ (year % 100 # 0 \/ year % 400 = 0)

\* The month and day of day yday (from 0) of a year, given the days before
\* each of its months.
DateInMonth(year, yday, month, before) ==
    [year |-> year, month |-> month, day |-> yday - before[month] + 1]

DateInYear(year, yday, before) ==
    DateInMonth(year, yday,
                CHOOSE m \in 1..12 : before[m] <= yday /\ yday < before[m + 1],
                before)

\* y years precede the 4-year cycle whose day d (from 0) is asked for.
DateIn4Years(y, d, n1) ==
    DateInYear(y + n1 + 1, d - 365 * n1,
               IF IsLeap(y + n1 + 1) THEN LeapDaysBefore ELSE DaysBefore)

\* y years precede the century whose day d (from 0) is asked for.
DateIn100Years(y, d) ==
    DateIn4Years(y + 4 * (d \div 1461), d % 1461, Min((d % 1461) \div 365, 3))

\* y years precede the 400-year cycle whose day d (from 0) is asked for.
DateIn400Years(y, d, n100) ==
    DateIn100Years(y + 100 * n100, d - 36524 * n100)

\* The civil date of day number d, counted from 0001-01-01 = 0.
Date(d) ==
    DateIn400Years(400 * (d \div 146097), d % 146097,
                   Min((d % 146097) \div 36524, 3))

\* "02 Jan 2006"
FormatDate(date) ==
    Pad2(date.day) \o " " \o MonthName[date.month] \o " " \o Pad4(date.year)

\* "15:04:05", from the seconds since midnight
FormatClock(secs) ==
    Pad2(secs \div 3600) \o ":" \o Pad2((secs % 3600) \div 60) \o ":" \o Pad2(secs % 60)

\* "-0700", from the offset in minutes east of UTC
FormatZone(zone) ==
    IF zone < 0
    THEN "-" \o Pad2((-zone) \div 60) \o Pad2((-zone) % 60)
    ELSE "+" \o Pad2(zone \div 60) \o Pad2(zone % 60)

\* The wall clock reading: day number, seconds since midnight, zone.
FormatWall(days, secs, zone) ==
    DayName[((days + 1) % 7) + 1] \o ", " \o FormatDate(Date(days)) \o " "
    \o FormatClock(secs) \o " " \o FormatZone(zone)

\* t.Format("Mon, 02 Jan 2006 15:04:05 -0700")
FormatRFC1123Z(t) ==
    FormatWall(t.day + ((t.sec + t.off) \div 86400),
               (t.sec + t.off) % 86400,
               t.off \div 60)

\* anyTimeFormat(time.RFC1123Z, times...): the first non-zero time, formatted.
RECURSIVE anyTimeFormat(_)
anyTimeFormat(times) ==
    IF times = <<>> THEN ""
    ELSE IF ~IsZero(Head(times)) THEN FormatRFC1123Z(Head(times))
    ELSE anyTimeFormat(Tail(times))

(***************************************************************************)
(* newAmazonRssItem                                                        *)
(***************************************************************************)
\* item.PubDate: anyTimeFormat(time.RFC1123Z, i.Created, i.Updated)
ItemPubDate(i) == anyTimeFormat(<<i.Created, i.Updated>>)

\* Variant of AmazonRssItemLiteral: IntroText taken from the item's
\* Description instead of the fixed text.
AmazonRssItemLiteral_IntroFromInput(i) ==
    [ Title        |-> i.Title,
      Link         |-> Deref(i.Link).Href,
      Description  |-> i.Description,
      Content      |-> Nil,
      Author       |-> "",
      Category     |-> "",
      Comments     |-> "",
      Enclosure    |-> Nil,
      Guid         |-> i.Id,
      PubDate      |-> ItemPubDate(i),
      Source       |-> "",
      Creator      |-> "",
      HeroImage    |-> "POST THUMBNAIL (Prefer 2x1 at least 1000px wide)",
      IntroText    |-> i.Description,
      IndexContent |-> "True",
      Products     |-> <<>> ]

\* The composite literal &AmazonRssItem{...}; the fields it does not name
\* hold their zero values.
AmazonRssItemLiteral(i) ==
    [ Title        |-> i.Title,
      Link         |-> Deref(i.Link).Href,
      Description  |-> i.Description,
      Content      |-> Nil,
      Author       |-> "",
      Category     |-> "",
      Comments     |-> "",
      Enclosure    |-> Nil,
      Guid         |-> i.Id,
      PubDate      |-> ItemPubDate(i),
      Source       |-> "",
      Creator      |-> "",
      HeroImage    |-> "POST THUMBNAIL (Prefer 2x1 at least 1000px wide)",
      IntroText    |-> "META DESCRIPTION",
      IndexContent |-> "True",
      Products     |-> <<>> ]

\* Variant of ItemContent: the Content is built without the length test.
ItemContent_Always(i) == Ptr([Content |-> i.Content])

\* if len(i.Content) > 0 { item.Content = &RssContent{Content: i.Content} }
ItemContent(i) ==
    IF Len(i.Content) > 0 THEN Ptr([Content |-> i.Content]) ELSE Nil

\* if i.Source != nil { item.Source = i.Source.Href }
ItemSource(i) ==
    IF i.Source # Nil THEN Deref(i.Source).Href ELSE ""

\* Variant of ItemEnclosure: the test is on Url where the code tests Type.
ItemEnclosure_UrlGate(i) ==
    IF /\ i.Enclosure # Nil
       /\ Deref(i.Enclosure).Url # ""
       /\ Deref(i.Enclosure).Length # ""
    THEN Ptr([ Url    |-> Deref(i.Enclosure).Url,
               Type   |-> Deref(i.Enclosure).Type,
               Length |-> Deref(i.Enclosure).Length ])
    ELSE Nil

\* if i.Enclosure != nil && i.Enclosure.Type != "" && i.Enclosure.Length != ""
ItemEnclosure(i) ==
    IF /\ i.Enclosure # Nil
       /\ Deref(i.Enclosure).Type # ""
       /\ Deref(i.Enclosure).Length # ""
    THEN Ptr([ Url    |-> Deref(i.Enclosure).Url,
               Type   |-> Deref(i.Enclosure).Type,
               Length |-> Deref(i.Enclosure).Length ])
    ELSE Nil

\* Variant of ItemAuthor: the Email stands in for an empty Name.
ItemAuthor_EmailFallback(i) ==
    IF i.Author # Nil
    THEN IF Deref(i.Author).Name # "" THEN Deref(i.Author).Name
         ELSE Deref(i.Author).Email
    ELSE ""

\* if i.Author != nil { item.Author = i.Author.Name }
ItemAuthor(i) ==
    IF i.Author # Nil THEN Deref(i.Author).Name ELSE ""

\* Variant of ItemNilDeref: i.Source.Href is read without the nil check.
ItemNilDeref_Source(p) ==
    p = Nil \/ Deref(p).Link = Nil \/ Deref(p).Source = Nil

\* The dereferences newAmazonRssItem makes without a nil check: i itself
\* (i.Title) and i.Link (i.Link.Href).
ItemNilDeref(p) == p = Nil \/ Deref(p).Link = Nil

newAmazonRssItem(p) ==
    IF ItemNilDeref(p) THEN Panic
    ELSE LET i == Deref(p)
         IN  Ok([ AmazonRssItemLiteral(i) EXCEPT
                    !.Content   = ItemContent(i),
                    !.Source    = ItemSource(i),
                    !.Enclosure = ItemEnclosure(i),
                    !.Author    = ItemAuthor(i) ])

(***************************************************************************)
(* AmazonRss.AmazonRssFeed                                                 *)
(***************************************************************************)
\* Variant of FeedPubDate: Updated is tried before Created.
FeedPubDate_UpdatedFirst(r) == anyTimeFormat(<<r.Updated, r.Created>>)

\* pub := anyTimeFormat(time.RFC1123Z, r.Created, r.Updated)
FeedPubDate(r) == anyTimeFormat(<<r.Created, r.Updated>>)

\* Variant of FeedLastBuildDate: Created is a second candidate.
FeedLastBuildDate_CreatedFallback(r) == anyTimeFormat(<<r.Updated, r.Created>>)

\* build := anyTimeFormat(time.RFC1123Z, r.Updated)
FeedLastBuildDate(r) == anyTimeFormat(<<r.Updated>>)

\* Variant of FeedAuthor: the name is added only to a non-empty Email.
FeedAuthor_NeedsEmail(r) ==
    IF r.Author # Nil
    THEN IF Len(Deref(r.Author).Name) > 0 /\ Len(Deref(r.Author).Email) > 0
         THEN Deref(r.Author).Email \o " (" \o Deref(r.Author).Name \o ")"
         ELSE Deref(r.Author).Email
    ELSE ""

\* author: fmt.Sprintf("%s (%s)", r.Author.Email, r.Author.Name)
FeedAuthor(r) ==
    IF r.Author # Nil
    THEN IF Len(Deref(r.Author).Name) > 0
         THEN Deref(r.Author).Email \o " (" \o Deref(r.Author).Name \o ")"
         ELSE Deref(r.Author).Email
    ELSE ""

\* image: a field-for-field copy of r.Image
FeedImage(r) ==
    IF r.Image # Nil
    THEN Ptr([ Url    |-> Deref(r.Image).Url,
               Title  |-> Deref(r.Image).Title,
               Link   |-> Deref(r.Image).Link,
               Width  |-> Deref(r.Image).Width,
               Height |-> Deref(r.Image).Height ])
    ELSE Nil

\* The composite literal &AmazonRssFeed{...}; AmznRssVersion 1.0 is kept as
\* the number 1.
AmazonRssFeedLiteral(r) ==
    [ Title          |-> r.Title,
      Link           |-> Deref(r.Link).Href,
      Description    |-> r.Description,
      Language       |-> "",
      Copyright      |-> r.Copyright,
      ManagingEditor |-> FeedAuthor(r),
      WebMaster      |-> "",
      PubDate        |-> FeedPubDate(r),
      LastBuildDate  |-> FeedLastBuildDate(r),
      Category       |-> "",
      Generator      |-> "",
      Docs           |-> "",
      Cloud          |-> "",
      Ttl            |-> 0,
      Rating         |-> "",
      SkipHours      |-> "",
      SkipDays       |-> "",
      AmznRssVersion |-> 1,
      Image          |-> FeedImage(r),
      TextInput      |-> Nil,
      Items          |-> <<>> ]

\* Variant of AppendItems: each item is put in front of the earlier ones.
RECURSIVE AppendItems_Prepend(_, _, _)
AppendItems_Prepend(items, k, acc) ==
    IF k > Len(items) THEN [panic |-> FALSE, ret |-> acc]
    ELSE LET it == newAmazonRssItem(items[k])
         IN  IF it.panic THEN [panic |-> TRUE, ret |-> acc]
             ELSE AppendItems_Prepend(items, k + 1, <<it.ret>> \o acc)

\* for _, i := range r.Items { channel.Items = append(channel.Items, ...) }
\* from index k on, with the items appended so far; a panic in an item
\* ends the call.
RECURSIVE AppendItems(_, _, _)
AppendItems(items, k, acc) ==
    IF k > Len(items) THEN [panic |-> FALSE, ret |-> acc]
    ELSE LET it == newAmazonRssItem(items[k])
         IN  IF it.panic THEN [panic |-> TRUE, ret |-> acc]
             ELSE AppendItems(items, k + 1, Append(acc, it.ret))

\* The value of the channel AmazonRssFeed builds for the feed r.
AmazonRssFeed(r) ==
    IF r.Link = Nil THEN Panic
    ELSE LET items == AppendItems(r.Items, 1, <<>>)
         IN  IF items.panic THEN Panic
             ELSE Ok([AmazonRssFeedLiteral(r) EXCEPT !.Items = items.ret])

(***************************************************************************)
(* FeedXml                                                                 *)
(***************************************************************************)
\* Variant of AmazonRssFeed_FeedXml: the wrapped channel loses its items.
AmazonRssFeed_FeedXml_DropsItems(r, h) ==
    [ ret  |-> Ptr([ Version             |-> "2.0",
                     Channel             |-> r,
                     ContentNamespace    |-> "http://purl.org/rss/1.0/modules/content/",
                     DublinCoreNamespace |-> "http://purl.org/dc/elements/1.1/",
                     AmazonNamespace     |-> "https://amazon.com/ospublishing/1.0/" ]),
      heap |-> [h EXCEPT ![r].Items = <<>>] ]

\* (r *AmazonRssFeed) FeedXml: r is an address of the heap h. The result is
\* the envelope and the heap after the call.
AmazonRssFeed_FeedXml(r, h) ==
    [ ret  |-> Ptr([ Version             |-> "2.0",
                     Channel             |-> r,
                     ContentNamespace    |-> "http://purl.org/rss/1.0/modules/content/",
                     DublinCoreNamespace |-> "http://purl.org/dc/elements/1.1/",
                     AmazonNamespace     |-> "https://amazon.com/ospublishing/1.0/" ]),
      heap |-> h ]

\* (r *AmazonRss) FeedXml: r.AmazonRssFeed().FeedXml()
AmazonRss_FeedXml(r, h) ==
    LET c == AmazonRssFeed(r)
    IN  IF c.panic THEN [panic |-> TRUE, ret |-> Nil, heap |-> h, chan |-> 0]
        ELSE LET h2 == Append(h, Deref(c.ret))
                 x  == AmazonRssFeed_FeedXml(Len(h2), h2)
             IN  [panic |-> FALSE, ret |-> x.ret, heap |-> x.heap, chan |-> Len(h2)]

(***************************************************************************)
(* Inputs                                                                  *)
(***************************************************************************)
\* 2006-01-02T15:04:05-07:00 and 2000-03-01T05:00:00+05:30, whose UTC day is
\* the leap day; NanoTime is one nanosecond after the zero time.
T1 == Time(732312, 22 * 3600 + 4 * 60 + 5, 0, -(7 * 3600))
T2 == Time(730178, 23 * 3600 + 30 * 60, 0, 5 * 3600 + 30 * 60)
NanoTime == Time(0, 0, 1, 0)

Times == {ZeroTime, T1, T2, NanoTime}

OptPtr(S) == {Nil} \cup {Ptr(v) : v \in S}

Authors == [Name : {"", "Jane"}, Email : {"", "jane@x"}]

Enclosures == [Url : {"", "http://e"}, Type : {"", "audio/mpeg"}, Length : {"", "10"}]

Links(h) == OptPtr({[Href |-> h]})

\* Every combination of the optional inputs of an item.
Items ==
    [ Title       : {"I1"},
      Link        : Links("http://x/1"),
      Description : {"D1"},
      Id          : {"id1"},
      Content     : {"", "<p>c</p>"},
      Source      : Links("http://src"),
      Author      : OptPtr(Authors),
      Enclosure   : OptPtr(Enclosures),
      Created     : Times,
      Updated     : Times ]

BareItem ==
    [ Title |-> "I1", Link |-> Ptr([Href |-> "http://x/1"]), Description |-> "D1",
      Id |-> "", Content |-> "", Source |-> Nil, Author |-> Nil,
      Enclosure |-> Nil, Created |-> ZeroTime, Updated |-> ZeroTime ]

FullItem ==
    [ Title |-> "I2", Link |-> Ptr([Href |-> "http://x/2"]), Description |-> "D2",
      Id |-> "id2", Content |-> "<p>c</p>", Source |-> Ptr([Href |-> "http://src"]),
      Author |-> Ptr([Name |-> "Jane", Email |-> "jane@x"]),
      Enclosure |-> Ptr([Url |-> "http://e", Type |-> "audio/mpeg", Length |-> "10"]),
      Created |-> T1, Updated |-> T2 ]

\* The items a feed is built from: nil, and items that differ in every
\* optional input.
FeedItems ==
    { Nil,
      Ptr(BareItem),
      Ptr(FullItem),
      Ptr([BareItem EXCEPT !.Title = "I3", !.Updated = T2,
             !.Enclosure = Ptr([Url |-> "http://e", Type |-> "", Length |-> "10"]),
             !.Author = Ptr([Name |-> "", Email |-> "jane@x"])]),
      Ptr([FullItem EXCEPT !.Title = "I4", !.Created = NanoTime, !.Updated = ZeroTime,
             !.Enclosure = Ptr([Url |-> "", Type |-> "audio/mpeg", Length |-> "10"])]),
      Ptr([FullItem EXCEPT !.Title = "I5", !.Link = Nil]) }

ItemSeqs == UNION {[1..n -> FeedItems] : n \in 0..MaxItems}

Images == {[Url |-> "http://i", Title |-> "img", Link |-> "http://x", Width |-> 88, Height |-> 31]}

Feeds ==
    [ Title       : {"T"},
      Link        : Links("http://x"),
      Description : {"D"},
      Author      : OptPtr(Authors),
      Copyright   : {"(c) x"},
      Created     : Times,
      Updated     : Times,
      Image       : OptPtr(Images),
      Items       : ItemSeqs ]

NoFeed == Nil

(***************************************************************************)
(* The calls                                                               *)
(***************************************************************************)
InitItem ==
    /\ pc = "item"
    /\ item \in OptPtr(Items)
    /\ feed = NoFeed

InitFeed ==
    /\ pc = "feed"
    /\ feed \in {Ptr(f) : f \in Feeds}
    /\ item = Nil

Init ==
    /\ InitItem \/ InitFeed
    /\ rssItem = Nil
    /\ heap = <<>>
    /\ chan = 0
    /\ xml = Nil

\* newAmazonRssItem(item)
CallNewAmazonRssItem ==
    /\ pc = "item"
    /\ LET r == newAmazonRssItem(item)
       IN  /\ rssItem' = r.ret
           /\ pc' = IF r.panic THEN "panic" ELSE "done"
    /\ UNCHANGED <<feed, item, heap, chan, xml>>

\* channel := (&AmazonRss{feed}).AmazonRssFeed()
CallAmazonRssFeed ==
    /\ pc = "feed"
    /\ LET r == AmazonRssFeed(Deref(feed))
       IN  IF r.panic
           THEN pc' = "panic" /\ UNCHANGED <<heap, chan>>
           ELSE /\ heap' = Append(heap, Deref(r.ret))
                /\ chan' = Len(heap) + 1
                /\ pc' = "chan"
    /\ UNCHANGED <<feed, item, rssItem, xml>>

\* channel.FeedXml()
CallAmazonRssFeedFeedXml ==
    /\ pc = "chan"
    /\ LET x == AmazonRssFeed_FeedXml(chan, heap)
       IN  /\ xml' = x.ret
           /\ heap' = x.heap
    /\ pc' = "done"
    /\ UNCHANGED <<feed, item, rssItem, chan>>

\* (&AmazonRss{feed}).FeedXml()
CallAmazonRssFeedXml ==
    /\ pc = "feed"
    /\ LET x == AmazonRss_FeedXml(Deref(feed), heap)
       IN  /\ xml' = x.ret
           /\ heap' = x.heap
           /\ pc' = IF x.panic THEN "panic" ELSE "done"
    /\ UNCHANGED <<feed, item, rssItem, chan>>

Next ==
    \/ CallNewAmazonRssItem
    \/ CallAmazonRssFeed
    \/ CallAmazonRssFeedFeedXml
    \/ CallAmazonRssFeedXml

Spec == Init /\ [][Next]_vars

(***************************************************************************)
(* Properties                                                              *)
(***************************************************************************)
\* A direct newAmazonRssItem call has returned.
ItemDone == pc = "done" /\ item # Nil /\ rssItem # Nil

\* The channels built so far from the feed.
Channels == {heap[c] : c \in 1..Len(heap)}

\* The first non-zero of created and updated in RFC 1123 form with a numeric
\* zone, "" when both are zero.
CreatedElseUpdated(created, updated) ==
    IF ~IsZero(created) THEN FormatRFC1123Z(created)
    ELSE IF ~IsZero(updated) THEN FormatRFC1123Z(updated)
    ELSE ""

\* C1: newAmazonRssItem produces an Enclosure iff the source Enclosure is
\* non-nil with a non-empty Type and a non-empty Length, whatever its Url,
\* and the produced Enclosure carries the source Url, Type and Length.
C1_EnclosureGate ==
    ItemDone =>
        LET i == Deref(item)
            o == Deref(rssItem)
        IN  /\ o.Enclosure # Nil <=>
                  /\ i.Enclosure # Nil
                  /\ Deref(i.Enclosure).Type # ""
                  /\ Deref(i.Enclosure).Length # ""
            /\ o.Enclosure # Nil =>
                  /\ Deref(o.Enclosure).Url = Deref(i.Enclosure).Url
                  /\ Deref(o.Enclosure).Type = Deref(i.Enclosure).Type
                  /\ Deref(o.Enclosure).Length = Deref(i.Enclosure).Length

\* An enclosure with Url and Length but no Type was mapped to no Enclosure.
C1_Witness ==
    /\ ItemDone
    /\ Deref(item).Enclosure = Ptr([Url |-> "http://e", Type |-> "", Length |-> "10"])
    /\ Deref(rssItem).Enclosure = Nil

\* C2: the PubDate of a produced item and of a produced channel is the
\* RFC-1123-with-numeric-zone form of Created when Created is non-zero,
\* otherwise of Updated when Updated is non-zero, otherwise "".
C2_PubDate ==
    /\ ItemDone =>
          Deref(rssItem).PubDate =
              CreatedElseUpdated(Deref(item).Created, Deref(item).Updated)
    /\ \A c \in Channels :
          c.PubDate = CreatedElseUpdated(Deref(feed).Created, Deref(feed).Updated)

\* A channel of a feed with both dates set carries the Created date.
C2_Witness ==
    /\ pc = "chan"
    /\ Deref(feed).Created = T1
    /\ Deref(feed).Updated = T2
    /\ heap[chan].PubDate = "Mon, 02 Jan 2006 15:04:05 -0700"

\* C3: the LastBuildDate of a produced channel is the RFC-1123-with-numeric-
\* zone form of the feed's Updated when it is non-zero and "" otherwise,
\* also when Created is set.
C3_LastBuildDate ==
    \A c \in Channels :
        c.LastBuildDate =
            IF ~IsZero(Deref(feed).Updated)
            THEN FormatRFC1123Z(Deref(feed).Updated)
            ELSE ""

\* A feed with Created set and Updated zero: PubDate set, LastBuildDate empty.
C3_Witness ==
    /\ pc = "chan"
    /\ Deref(feed).Created = T1
    /\ Deref(feed).Updated = ZeroTime
    /\ heap[chan].PubDate = "Mon, 02 Jan 2006 15:04:05 -0700"
    /\ heap[chan].LastBuildDate = ""

\* C4: the ManagingEditor of a produced channel is "" without an Author,
\* Author.Email alone when Author.Name is empty, and "<Email> (<Name>)" when
\* Author.Name is non-empty, also when Email is empty.
C4_ManagingEditor ==
    \A c \in Channels :
        LET a == Deref(feed).Author
        IN  /\ a = Nil => c.ManagingEditor = ""
            /\ a # Nil /\ Deref(a).Name = "" =>
                  c.ManagingEditor = Deref(a).Email
            /\ a # Nil /\ Deref(a).Name # "" =>
                  c.ManagingEditor = Deref(a).Email \o " (" \o Deref(a).Name \o ")"

\* An author with a Name and no Email was mapped to " (Jane)".
C4_Witness ==
    /\ pc = "chan"
    /\ Deref(feed).Author = Ptr([Name |-> "Jane", Email |-> ""])
    /\ heap[chan].ManagingEditor = " (Jane)"

\* C5: newAmazonRssItem produces no Content for an empty source Content and
\* a Content holding the source string for a non-empty one.
C5_Content ==
    ItemDone =>
        LET i == Deref(item)
            o == Deref(rssItem)
        IN  /\ i.Content = "" => o.Content = Nil
            /\ i.Content # "" =>
                  o.Content # Nil /\ Deref(o.Content).Content = i.Content

\* An item with content was mapped to an item with that content.
C5_Witness ==
    /\ ItemDone
    /\ Deref(item).Content = "<p>c</p>"
    /\ Deref(rssItem).Content = Ptr([Content |-> "<p>c</p>"])

\* C6: every item of every produced channel has the three fixed placeholder
\* strings and no Products, whatever the input item.
C6_Placeholders ==
    \A c \in Channels : \A k \in 1..Len(c.Items) :
        LET o == Deref(c.Items[k])
        IN  /\ o.HeroImage = "POST THUMBNAIL (Prefer 2x1 at least 1000px wide)"
            /\ o.IntroText = "META DESCRIPTION"
            /\ o.IndexContent = "True"
            /\ o.Products = <<>>

\* A channel of two items that differ in every optional input.
C6_Witness ==
    /\ pc = "chan"
    /\ Deref(feed).Items = <<Ptr(BareItem), Ptr(FullItem)>>
    /\ Len(heap[chan].Items) = 2
    /\ Deref(heap[chan].Items[2]).IntroText = "META DESCRIPTION"

\* C7: a produced channel has as many items as the feed, and its k-th item
\* is newAmazonRssItem of the feed's k-th item.
C7_ItemsInOrder ==
    \A c \in Channels :
        /\ Len(c.Items) = Len(Deref(feed).Items)
        /\ \A k \in 1..Len(c.Items) :
              c.Items[k] = newAmazonRssItem(Deref(feed).Items[k]).ret

\* Two different items came out in the order they went in.
C7_Witness ==
    /\ pc = "chan"
    /\ Deref(feed).Items = <<Ptr(FullItem), Ptr(BareItem)>>
    /\ Len(heap[chan].Items) = 2
    /\ Deref(heap[chan].Items[1]).Title = "I2"
    /\ Deref(heap[chan].Items[2]).Title = "I1"

\* The envelope x holds the constant version and namespaces.
EnvelopeConstants(x) ==
    /\ x.Version = "2.0"
    /\ x.ContentNamespace = "http://purl.org/rss/1.0/modules/content/"
    /\ x.DublinCoreNamespace = "http://purl.org/dc/elements/1.1/"
    /\ x.AmazonNamespace = "https://amazon.com/ospublishing/1.0/"

\* C8: AmazonRssFeed.FeedXml returns an envelope with the constant version
\* and namespaces whose Channel is the channel it was called on, and leaves
\* every channel as it was; AmazonRss.FeedXml returns such an envelope
\* around the channel AmazonRssFeed builds for the feed.
C8_FeedXmlStep ==
    /\ pc = "chan" /\ pc' = "done" =>
          /\ xml' # Nil
          /\ EnvelopeConstants(Deref(xml'))
          /\ Deref(xml').Channel = chan
          /\ heap' = heap
    /\ pc = "feed" /\ pc' = "done" =>
          /\ xml' # Nil
          /\ EnvelopeConstants(Deref(xml'))
          /\ Deref(xml').Channel = Len(heap) + 1
          /\ heap' = Append(heap, Deref(AmazonRssFeed(Deref(feed)).ret))

C8_Envelope == [][C8_FeedXmlStep]_vars

\* A channel with items was wrapped and is still in place.
C8_Witness ==
    /\ pc = "done"
    /\ chan # 0
    /\ xml # Nil
    /\ Deref(xml).Channel = chan
    /\ Len(heap[chan].Items) = 2

\* The item pointer p is nil or points to an item without a Link.
ItemLacksRequired(p) == p = Nil \/ Deref(p).Link = Nil

\* The feed has no Link, or one of its items is nil or has no Link.
FeedLacksRequired ==
    \/ Deref(feed).Link = Nil
    \/ \E k \in 1..Len(Deref(feed).Items) : ItemLacksRequired(Deref(feed).Items[k])

\* The outputs of the absent optional inputs of the item i are empty in o.
AbsentItemInputsEmpty(i, o) ==
    /\ i.Author = Nil => o.Author = ""
    /\ i.Source = Nil => o.Source = ""
    /\ i.Enclosure = Nil => o.Enclosure = Nil
    /\ i.Content = "" => o.Content = Nil
    /\ IsZero(i.Created) /\ IsZero(i.Updated) => o.PubDate = ""

\* C9: the mapping does not fail on absent optional inputs (a panic comes
\* only from a nil Link or a nil item), and the outputs of the absent
\* optional inputs are empty.
C9_AbsentInputs ==
    /\ pc = "panic" =>
          IF feed = NoFeed THEN ItemLacksRequired(item) ELSE FeedLacksRequired
    /\ ItemDone => AbsentItemInputsEmpty(Deref(item), Deref(rssItem))
    /\ \A c \in Channels :
          LET f == Deref(feed)
          IN  /\ f.Author = Nil => c.ManagingEditor = ""
              /\ f.Image = Nil => c.Image = Nil
              /\ IsZero(f.Created) /\ IsZero(f.Updated) => c.PubDate = ""
              /\ IsZero(f.Updated) => c.LastBuildDate = ""
              /\ Len(c.Items) = Len(f.Items)
              /\ \A k \in 1..Len(c.Items) :
                    AbsentItemInputsEmpty(Deref(f.Items[k]), Deref(c.Items[k]))

\* A feed without any optional input, holding an item without any, was
\* mapped to a channel.
C9_Witness ==
    /\ pc = "chan"
    /\ Deref(feed).Author = Nil
    /\ Deref(feed).Image = Nil
    /\ IsZero(Deref(feed).Created)
    /\ IsZero(Deref(feed).Updated)
    /\ Deref(feed).Items = <<Ptr(BareItem)>>
    /\ heap[chan].ManagingEditor = ""
    /\ Deref(heap[chan].Items[1]).Author = ""

\* C10: the Author of a produced item is the source Author.Name when an
\* Author is present and "" when it is absent, never the Email.
C10_ItemAuthor ==
    ItemDone =>
        LET i == Deref(item)
            o == Deref(rssItem)
        IN  o.Author = IF i.Author # Nil THEN Deref(i.Author).Name ELSE ""

\* An author with an Email and no Name was mapped to an empty Author.
C10_Witness ==
    /\ ItemDone
    /\ Deref(item).Author = Ptr([Name |-> "", Email |-> "jane@x"])
    /\ Deref(rssItem).Author = ""

====
